---- MODULE Spec2Model ----
(***************************************************************************)
(* Model of salt/states/sysctl.py: the state function present(name, value, *)
(* config) that reconciles a kernel tunable with a desired value, in      *)
(* memory and in a sysctl configuration file.                              *)
(*                                                                         *)
(* Python strings are sequences of one-character strings, so that          *)
(* str.split(), the substring test and str()/format() are computed and     *)
(* not assumed.  A desired value is a tagged Python value (str or int).    *)
(* A dict is a set of <<key, value>> pairs (ret['changes']) or a function  *)
(* whose DOMAIN is its key set (the mapping sysctl.show returns).          *)
(***************************************************************************)
EXTENDS Integers, Sequences, FiniteSets, TLC

\* ------------------------------------------------------------------ bounds
\* longest string the kernel, the file or the caller holds
MaxLen == 2
\* largest integer desired value (YAML "value: 1")
MaxInt == 1
\* longest string of the comparison-only specification SpecCmp
MaxCmpLen == 4

\* ------------------------------------------------------ Python value layer
Chars == {"0", " "}
Whitespace == {" ", "\t", "\n", "\r"}
Digits == <<"0", "1", "2", "3", "4", "5", "6", "7", "8", "9">>

Strs == UNION {[1..k -> Chars] : k \in 0..MaxLen}
CmpStrs == UNION {[1..k -> Chars] : k \in 0..MaxCmpLen}

PyStr(s) == [t |-> "str", s |-> s, n |-> 0]
PyInt(n) == [t |-> "int", s |-> <<>>, n |-> n]

RECURSIVE IntToStr(_)
IntToStr(n) ==
    IF n < 10 THEN <<Digits[n + 1]>>
    ELSE IntToStr(n \div 10) \o <<Digits[(n % 10) + 1]>>

\* str(v)
Str(v) == IF v.t = "int" THEN IntToStr(v.n) ELSE v.s

\* length of the leading run of non-whitespace characters of s
TokenLen(s) ==
    IF \E i \in 1..Len(s) : s[i] \in Whitespace
    THEN (CHOOSE i \in 1..Len(s) :
             /\ s[i] \in Whitespace
             /\ \A j \in 1..(i - 1) : s[j] \notin Whitespace) - 1
    ELSE Len(s)

\* a wrong split: every space separates, empty fields are kept (s.split(' '))
RECURSIVE SplitOnEverySpace(_)
SplitOnEverySpace(s) ==
    IF \A i \in 1..Len(s) : s[i] \notin Whitespace THEN <<s>>
    ELSE LET n == TokenLen(s)
         IN  <<SubSeq(s, 1, n)>> \o SplitOnEverySpace(SubSeq(s, n + 2, Len(s)))

\* s.split(): the maximal runs of non-whitespace characters, in order
RECURSIVE Split(_)
Split(s) ==
    IF s = <<>> THEN <<>>
    ELSE IF Head(s) \in Whitespace THEN Split(Tail(s))
    ELSE LET n == TokenLen(s)
         IN  <<SubSeq(s, 1, n)>> \o Split(SubSeq(s, n + 1, Len(s)))

\* sub in s
Contains(sub, s) ==
    \E i \in 1..(Len(s) - Len(sub) + 1) : SubSeq(s, i, i + Len(sub) - 1) = sub

\* --------------------------------------------------------------- constants
None == "None"
EtcSysctlConf == "/etc/sysctl.conf"
\* the configuration files of the host: one, which is also what
\* sysctl.default_config answers on a host that has that function
Paths == {EtcSysctlConf}

KnownNames == {"vm.swappiness"}
Names == KnownNames \cup {"kern.bogus"}

UnknownOid == <<"u", "n", "k", "n", "o", "w", "n", " ", "o", "i", "d">>
UpdatedToken == "Updated"
AlreadySetToken == "Already set"
OtherToken == "Other"
PersistError == "sysctl: permission denied"

DesiredValues == {PyStr(s) : s \in Strs} \cup {PyInt(n) : n \in 0..MaxInt}
ConfigArgs == {None, EtcSysctlConf}

\* the dicts a configuration file can hold for the names of the model
Dicts == UNION {[D -> Strs] : D \in SUBSET KnownNames}
CmpValues == {PyStr(s) : s \in CmpStrs} \cup {PyInt(n) : n \in 0..MaxInt}
CmpDicts == [KnownNames -> CmpStrs]
FullDicts == [KnownNames -> Strs]

\* ------------------------------------------------------------------- state
VARIABLES
    live,      \* kernel: live value of every known tunable
    files,     \* path -> name -> value, the persisted configuration files
    writable,  \* whether the Persister's writes are permitted
    salt,      \* names of the execution functions loaded in __salt__
    ret,       \* what the last call of present returned
    exc,       \* the exception the last call of present let escape, or ""
    call,      \* the last call of present: its arguments and what it called
    lastOK     \* the arguments of the last successful apply, while the
               \* system has not been changed by anything else since

vars == <<live, files, writable, salt, ret, exc, call, lastOK>>

\* comment strings are kept as the format string and its arguments
Comment(fmt, name, value, err) ==
    [fmt |-> fmt, name |-> name, value |-> value, err |-> err]
NoComment == Comment("", "", <<>>, "")
UnknownComment ==
    Comment("This sysctl parameter is unknown to the system", "", <<>>, "")
AlreadySetComment(name, value) ==
    Comment("Sysctl value {0} = {1} is already set", name, Str(value), "")
UpdatedComment(name, value) ==
    Comment("Updated sysctl value {0} = {1}", name, Str(value), "")
FailedComment(name, value, err) ==
    Comment("Failed to set {0} to {1}: {2}", name, Str(value), err)
FileWrongComment ==
    Comment("Sysctl value is currently set on the running system but not correct in config file. Will adjust config file accordingly.",
            "", <<>>, "")
MemoryWrongComment ==
    Comment("Current running sysctl configuration is different from config. Will adjust running sysctl value.",
            "", <<>>, "")
BothWrongComment == Comment("Sysctl option set to be changed.", "", <<>>, "")

Ret(name, result, changes, comment) ==
    [name |-> name, result |-> result, changes |-> changes, comment |-> comment]
NoRet == Ret("", "", {}, NoComment)
InitialRet(name) == Ret(name, "True", {}, NoComment)

NoArgs == [set |-> FALSE, name |-> "", value |-> PyStr(<<>>), config |-> None]
Args(name, value, config) ==
    [set |-> TRUE, name |-> name, value |-> value, config |-> config]

NoCall ==
    [active |-> FALSE, name |-> "", value |-> PyStr(<<>>), config |-> None,
     test |-> FALSE, shown |-> FALSE, persisted |-> FALSE, token |-> "",
     raised |-> FALSE, wrote |-> FALSE, repeat |-> FALSE, exit |-> "",
     preLive |-> <<>>, preFiles |-> <<>>]

\* ----------------------------------------------------------- collaborators
\* __salt__['sysctl.get'](name): the live value, or the tool's complaint
SysctlGet(name) ==
    IF name \in KnownNames THEN live[name]
    ELSE <<"s", "y", "s", "c", "t", "l", ":", " ">> \o UnknownOid

\* __salt__['sysctl.show'](config_file=config): the file's name -> value mapping
SysctlShow(path) == files[path]

\* __salt__['sysctl.default_config']()
SysctlDefaultConfig == EtcSysctlConf

\* d with d[k] = v
Put(d, k, v) == [x \in DOMAIN d \cup {k} |-> IF x = k THEN v ELSE d[x]]

\* nothing for sysctl.persist to do: memory and file already hold the value
AlreadyPersisted(name, value, path) ==
    /\ Split(live[name]) = Split(Str(value))
    /\ name \in DOMAIN files[path]
    /\ Split(files[path][name]) = Split(Str(value))

\* __salt__['sysctl.persist'](name, value, config): what it can do from here
PersistOutcomes(name, value, path) ==
    IF ~writable \/ name \notin KnownNames
    THEN {[raised |-> TRUE, token |-> "", live |-> live, files |-> files,
           wrote |-> FALSE]}
    ELSE IF AlreadyPersisted(name, value, path)
    THEN {[raised |-> FALSE, token |-> AlreadySetToken, live |-> live,
           files |-> files, wrote |-> FALSE]}
    ELSE {[raised |-> FALSE, token |-> t,
           live |-> [live EXCEPT ![name] = Str(value)],
           files |-> [files EXCEPT ![path] = Put(@, name, Str(value))],
           wrote |-> TRUE] : t \in {UpdatedToken, OtherToken}}

\* ----------------------------------------------------------------- present
\* a wrong test for the sentinel: current == 'unknown oid'
IsUnknownExact(current) == current = UnknownOid

\* 'unknown oid' in current
IsUnknown(current) == Contains(UnknownOid, current)

\* the configuration file present works on
ResolveConfig(config) ==
    IF config = None
    THEN IF "sysctl.default_config" \in salt THEN SysctlDefaultConfig
         ELSE EtcSysctlConf
    ELSE config

\* str(current).split() == str(value).split()
MemoryValueCorrect(current, value) ==
    Split(Str(PyStr(current))) = Split(Str(value))

\* str(configured[name]).split() == str(value).split(); configured has name
ConfigValueCorrect(configured, name, value) ==
    Split(Str(PyStr(configured[name]))) = Split(Str(value))

Outcome(r, e, x) == [ret |-> r, exc |-> e, exit |-> x]

\* a wrong dry run: nothing reported when memory and file are both wrong
DryRunSilent(name, value, current, configured) ==
    IF name \notin DOMAIN configured THEN Outcome(NoRet, "KeyError", "raise@76")
    ELSE LET mem == MemoryValueCorrect(current, value)
             cfg == ConfigValueCorrect(configured, name, value)
         IN  IF mem /\ cfg
             THEN Outcome(Ret(name, "True", {}, AlreadySetComment(name, value)),
                          "", "return@81")
             ELSE IF mem
             THEN Outcome(Ret(name, "None",
                              {<<"old", PyStr(configured[name])>>, <<"new", value>>},
                              FileWrongComment), "", "return@88")
             ELSE IF cfg
             THEN Outcome(Ret(name, "None",
                              {<<"old", PyStr(Str(PyStr(current)))>>,
                               <<"new", PyStr(Str(value))>>},
                              MemoryWrongComment), "", "return@95")
             ELSE Outcome(Ret(name, "None", {}, BothWrongComment), "", "return@103")

\* the test-mode branch, from the live value and the mapping sysctl.show gave
DryRun(name, value, current, configured) ==
    IF name \notin DOMAIN configured THEN Outcome(NoRet, "KeyError", "raise@76")
    ELSE LET mem == MemoryValueCorrect(current, value)
             cfg == ConfigValueCorrect(configured, name, value)
         IN  IF mem /\ cfg
             THEN Outcome(Ret(name, "True", {}, AlreadySetComment(name, value)),
                          "", "return@81")
             ELSE IF mem /\ ~cfg
             THEN Outcome(Ret(name, "None",
                              {<<"old", PyStr(configured[name])>>, <<"new", value>>},
                              FileWrongComment), "", "return@88")
             ELSE IF ~mem /\ cfg
             THEN Outcome(Ret(name, "None",
                              {<<"old", PyStr(Str(PyStr(current)))>>,
                               <<"new", PyStr(Str(value))>>},
                              MemoryWrongComment), "", "return@95")
             ELSE Outcome(Ret(name, "None", {<<"new", value>>}, BothWrongComment),
                          "", "return@103")

\* a wrong apply branch: a token that is neither known one is a failure
ApplyResultStrict(name, value, p) ==
    IF p.raised
    THEN Outcome(Ret(name, "False", {}, FailedComment(name, value, PersistError)),
                 "", "return@112")
    ELSE IF p.token = UpdatedToken
    THEN Outcome(Ret(name, "True", {<<name, value>>}, UpdatedComment(name, value)),
                 "", "return@123")
    ELSE IF p.token = AlreadySetToken
    THEN Outcome(Ret(name, "True", {}, AlreadySetComment(name, value)),
                 "", "return@123")
    ELSE Outcome(Ret(name, "False", {}, NoComment), "", "return@123")

\* a wrong apply branch: CommandExecutionError is not caught
ApplyResultUncaught(name, value, p) ==
    IF p.raised
    THEN Outcome(NoRet, "CommandExecutionError", "raise@106")
    ELSE IF p.token = UpdatedToken
    THEN Outcome(Ret(name, "True", {<<name, value>>}, UpdatedComment(name, value)),
                 "", "return@123")
    ELSE IF p.token = AlreadySetToken
    THEN Outcome(Ret(name, "True", {}, AlreadySetComment(name, value)),
                 "", "return@123")
    ELSE Outcome(InitialRet(name), "", "return@123")

\* a wrong apply branch: the update is reported as old/new like the dry run
ApplyResultOldNew(name, value, p) ==
    IF p.raised
    THEN Outcome(Ret(name, "False", {}, FailedComment(name, value, PersistError)),
                 "", "return@112")
    ELSE IF p.token = UpdatedToken
    THEN Outcome(Ret(name, "True", {<<"new", value>>}, UpdatedComment(name, value)),
                 "", "return@123")
    ELSE IF p.token = AlreadySetToken
    THEN Outcome(Ret(name, "True", {}, AlreadySetComment(name, value)),
                 "", "return@123")
    ELSE Outcome(InitialRet(name), "", "return@123")

\* a wrong apply branch: 'Already set' is not recognised
ApplyResultNoAlreadySet(name, value, p) ==
    IF p.raised
    THEN Outcome(Ret(name, "False", {}, FailedComment(name, value, PersistError)),
                 "", "return@112")
    ELSE IF p.token = UpdatedToken
    THEN Outcome(Ret(name, "True", {<<name, value>>}, UpdatedComment(name, value)),
                 "", "return@123")
    ELSE Outcome(InitialRet(name), "", "return@123")

\* the apply branch, from what sysctl.persist did (p)
ApplyResult(name, value, p) ==
    IF p.raised
    THEN Outcome(Ret(name, "False", {}, FailedComment(name, value, PersistError)),
                 "", "return@112")
    ELSE IF p.token = UpdatedToken
    THEN Outcome(Ret(name, "True", {<<name, value>>}, UpdatedComment(name, value)),
                 "", "return@123")
    ELSE IF p.token = AlreadySetToken
    THEN Outcome(Ret(name, "True", {}, AlreadySetComment(name, value)),
                 "", "return@123")
    ELSE Outcome(InitialRet(name), "", "return@123")

\* a wrong guard: the test flag is not consulted
TestModeIgnored(test) == FALSE

\* if __opts__['test']:
TestMode(test) == test

\* what present did not call
NoPersist ==
    [raised |-> FALSE, token |-> "", live |-> live, files |-> files,
     wrote |-> FALSE]

Run(o, p, shown, persisted) ==
    [o |-> o, p |-> p, shown |-> shown, persisted |-> persisted]

\* every way one call present(name, value, config) can go, with test = __opts__['test']
PresentRuns(name, value, config, test) ==
    LET current == SysctlGet(name)
        path == ResolveConfig(config)
    IN  IF IsUnknown(current)
        THEN {Run(Outcome(Ret(name, "False", {}, UnknownComment), "", "return@68"),
                  NoPersist, FALSE, FALSE)}
        ELSE IF TestMode(test)
        THEN {Run(DryRun(name, value, current, SysctlShow(path)),
                  NoPersist, TRUE, FALSE)}
        ELSE {Run(ApplyResult(name, value, p), p, FALSE, TRUE) :
                 p \in PersistOutcomes(name, value, path)}

Succeeded(r) == r.o.exc = "" /\ r.o.ret.result = "True"

Present(name, value, config, test) ==
    /\ ~call.active
    /\ \E r \in PresentRuns(name, value, config, test) :
          /\ ret' = r.o.ret
          /\ exc' = r.o.exc
          /\ live' = r.p.live
          /\ files' = r.p.files
          /\ call' = [active |-> TRUE, name |-> name, value |-> value,
                      config |-> config, test |-> test, shown |-> r.shown,
                      persisted |-> r.persisted, token |-> r.p.token,
                      raised |-> r.p.raised, wrote |-> r.p.wrote,
                      repeat |-> (lastOK = Args(name, value, config)),
                      exit |-> r.o.exit, preLive |-> live, preFiles |-> files]
          /\ lastOK' = IF r.persisted
                       THEN IF Succeeded(r) THEN Args(name, value, config)
                            ELSE NoArgs
                       ELSE lastOK
    /\ UNCHANGED <<writable, salt>>

\* the caller takes the result; input and result live for one call only
Deliver ==
    /\ call.active
    /\ call' = NoCall
    /\ ret' = NoRet
    /\ exc' = ""
    /\ UNCHANGED <<live, files, writable, salt, lastOK>>

\* ------------------------------------------------------------- environment
\* somebody else sets the live value (sysctl -w)
SetLive(name, v) ==
    /\ ~call.active
    /\ live[name] # v
    /\ live' = [live EXCEPT ![name] = v]
    /\ lastOK' = NoArgs
    /\ UNCHANGED <<files, writable, salt, ret, exc, call>>

\* somebody else rewrites a configuration file
EditFile(path, d) ==
    /\ ~call.active
    /\ files[path] # d
    /\ files' = [files EXCEPT ![path] = d]
    /\ lastOK' = NoArgs
    /\ UNCHANGED <<live, writable, salt, ret, exc, call>>

\* the permission to write comes or goes
SetWritable ==
    /\ ~call.active
    /\ writable' = ~writable
    /\ lastOK' = NoArgs
    /\ UNCHANGED <<live, files, salt, ret, exc, call>>

\* ----------------------------------------------------------- specification
Init ==
    /\ live \in [KnownNames -> Strs]
    /\ files \in [Paths -> Dicts]
    /\ writable \in BOOLEAN
    /\ salt \in {{"sysctl.get", "sysctl.show", "sysctl.persist"},
                 {"sysctl.get", "sysctl.show", "sysctl.persist",
                  "sysctl.default_config"}}
    /\ ret = NoRet
    /\ exc = ""
    /\ call = NoCall
    /\ lastOK = NoArgs

Next ==
    \/ \E name \in Names, value \in DesiredValues, config \in ConfigArgs,
          test \in BOOLEAN : Present(name, value, config, test)
    \/ Deliver
    \/ \E name \in KnownNames, v \in Strs : SetLive(name, v)
    \/ \E path \in Paths, d \in Dicts : EditFile(path, d)
    \/ SetWritable

Spec == Init /\ [][Next]_vars

\* The comparison alone: dry runs of a known name whose file holds it, over
\* longer strings (inner runs of blanks) for the live value or for the
\* persisted one, with nothing else going on.
InitCmp ==
    /\ \/ live \in [KnownNames -> CmpStrs] /\ files \in [Paths -> FullDicts]
       \/ live \in [KnownNames -> Strs] /\ files \in [Paths -> CmpDicts]
    /\ writable = TRUE
    /\ salt = {"sysctl.get", "sysctl.show", "sysctl.persist"}
    /\ ret = NoRet
    /\ exc = ""
    /\ call = NoCall
    /\ lastOK = NoArgs

NextCmp ==
    \/ \E name \in KnownNames, value \in CmpValues :
          Present(name, value, None, TRUE)
    \/ Deliver

SpecCmp == InitCmp /\ [][NextCmp]_vars

\* ------------------------------------------------- vocabulary of the claims
Keys(d) == {p[1] : p \in d}
\* a changes dict with every value in its string form
StrItems(d) == {<<p[1], Str(p[2])>> : p \in d}

\* the places of s that count: every character of a token, and the first
\* whitespace character after a token that another token follows
Kept(s) ==
    {i \in 1..Len(s) :
        \/ s[i] \notin Whitespace
        \/ /\ i > 1
           /\ s[i - 1] \notin Whitespace
           /\ \E j \in (i + 1)..Len(s) : s[j] \notin Whitespace}

\* the tokens of s joined by single blanks: equal for two strings exactly
\* when they have the same sequence of whitespace-separated tokens
Canon(s) ==
    LET K == Kept(s)
        at(k) == CHOOSE i \in K : Cardinality({j \in K : j < i}) = k - 1
    IN  [k \in 1..Cardinality(K) |->
            IF s[at(k)] \in Whitespace THEN " " ELSE s[at(k)]]

\* s with every whitespace character written twice ("10  20" for "10 20")
RECURSIVE Doubled(_)
Doubled(s) ==
    IF s = <<>> THEN <<>>
    ELSE (IF Head(s) \in Whitespace THEN <<Head(s), Head(s)>> ELSE <<Head(s)>>)
         \o Doubled(Tail(s))

\* s between two blanks
Padded(s) == <<" ">> \o s \o <<" ">>

\* s and two strings with the same tokens
Same(s) == {s, Doubled(s), Padded(s)}

CallKnown == call.active /\ call.name \in KnownNames
CallPath == ResolveConfig(call.config)
DryRunExits == {"raise@76", "return@81", "return@88", "return@95", "return@103"}

\* ------------------------------------------------------------------ claims
\* C1: when the live-value reader's answer for the name contains
\* "unknown oid", present returns result False, no changes and the
\* "unknown to the system" comment, whatever the value, the config and the
\* test flag; sysctl.show and sysctl.persist are not called, nothing is
\* written.
C1_UnknownShortCircuit ==
    (call.active /\ Contains(UnknownOid, SysctlGet(call.name))) =>
        /\ exc = ""
        /\ ret = Ret(call.name, "False", {}, UnknownComment)
        /\ call.exit = "return@68"
        /\ ~call.shown /\ ~call.persisted /\ ~call.wrote
        /\ live = call.preLive /\ files = call.preFiles

C1_Witness ==
    /\ call.active /\ call.name \notin KnownNames
    /\ ~call.test /\ call.value = PyInt(1) /\ call.config = EtcSysctlConf
    /\ ret.result = "False"

C4_FourWay ==
    (CallKnown /\ call.test) =>
        LET cfg == files[CallPath]
            cur == live[call.name]
            has == call.name \in DOMAIN cfg
            memOK == Split(cur) = Split(Str(call.value))
            fileOK == has /\ Split(cfg[call.name]) = Split(Str(call.value))
            new == <<"new", Str(call.value)>>
        IN  /\ exc = ""
            /\ (memOK /\ fileOK) => ret.result = "True" /\ ret.changes = {}
            /\ (memOK /\ ~fileOK) =>
                  /\ ret.result = "None"
                  /\ has
                  /\ has => StrItems(ret.changes) = {<<"old", cfg[call.name]>>, new}
            /\ (~memOK /\ fileOK) =>
                  ret.result = "None" /\ StrItems(ret.changes) = {<<"old", cur>>, new}
            /\ (~memOK /\ ~fileOK) =>
                  ret.result = "None" /\ StrItems(ret.changes) = {new}

\* The four-way classification where the mapping of the file has an entry
\* for the name (the part of C4 the code does implement).
FourWayWhenPersisted ==
    (CallKnown /\ call.test /\ call.name \in DOMAIN files[CallPath]) =>
        LET cfg == files[CallPath]
            cur == live[call.name]
            memOK == Canon(cur) = Canon(Str(call.value))
            fileOK == Canon(cfg[call.name]) = Canon(Str(call.value))
            new == <<"new", Str(call.value)>>
        IN  /\ exc = ""
            /\ (memOK /\ fileOK) => ret.result = "True" /\ ret.changes = {}
            /\ (memOK /\ ~fileOK) =>
                  /\ ret.result = "None"
                  /\ StrItems(ret.changes) = {<<"old", cfg[call.name]>>, new}
            /\ (~memOK /\ fileOK) =>
                  ret.result = "None" /\ StrItems(ret.changes) = {<<"old", cur>>, new}
            /\ (~memOK /\ ~fileOK) =>
                  ret.result = "None" /\ StrItems(ret.changes) = {new}

\* C5: in apply mode with a known name, when sysctl.persist returns, its
\* token alone decides: Updated gives True, {name: value} and the "Updated"
\* comment; Already set gives True, no changes and the "already set"
\* comment; any other token gives True, no changes and an empty comment.
C5_TokenDecides ==
    (CallKnown /\ ~call.test /\ call.persisted /\ ~call.raised) =>
        /\ exc = ""
        /\ ret.result = "True"
        /\ call.token = UpdatedToken =>
              ret = Ret(call.name, "True", {<<call.name, call.value>>},
                        UpdatedComment(call.name, call.value))
        /\ call.token = AlreadySetToken =>
              ret = Ret(call.name, "True", {},
                        AlreadySetComment(call.name, call.value))
        /\ call.token \notin {UpdatedToken, AlreadySetToken} =>
              ret = Ret(call.name, "True", {}, NoComment)

C5_Witness ==
    /\ CallKnown /\ ~call.test /\ call.persisted /\ ~call.raised
    /\ call.token = OtherToken /\ call.wrote

\* C6: in apply mode with a known name, when sysctl.persist raises
\* CommandExecutionError, present returns result False, no changes and a
\* comment holding the name, the value and the error text; nothing escapes
\* to the caller and the token is not classified.
C6_PersistFailureCaught ==
    (CallKnown /\ ~call.test /\ call.persisted /\ call.raised) =>
        /\ exc = ""
        /\ ret.result = "False" /\ ret.changes = {} /\ ret.name = call.name
        /\ ret.comment.fmt = "Failed to set {0} to {1}: {2}"
        /\ ret.comment.name = call.name
        /\ ret.comment.value = Str(call.value)
        /\ ret.comment.err = PersistError
        /\ call.exit = "return@112"

C6_Witness ==
    /\ CallKnown /\ ~call.test /\ call.persisted /\ call.raised
    /\ ~writable /\ call.value = PyInt(0)

\* C7: every call of present returns a result with result, changes and
\* comment; no exception reaches the caller, whatever the collaborators
\* hold, in particular in test mode when the mapping of the file has no
\* entry for the name.
C7_NoFault ==
    call.active =>
        /\ exc = ""
        /\ ret.name = call.name
        /\ ret.result \in {"True", "False", "None"}

\* C8 as stated: the changes of every result have no keys but old and new.
C8_OnlyOldNew ==
    (call.active /\ exc = "") => Keys(ret.changes) \subseteq {"old", "new"}

\* C8 as amended: the changes of a test-mode result have no keys but old
\* and new; the changes of an apply-mode result have no key but the name
\* of the tunable.
C8_KeysByMode ==
    (call.active /\ exc = "") =>
        /\ call.test => Keys(ret.changes) \subseteq {"old", "new"}
        /\ ~call.test => Keys(ret.changes) \subseteq {call.name}

C8_Witness ==
    /\ CallKnown /\ ~call.test /\ exc = ""
    /\ ret.changes = {<<call.name, call.value>>}

\* C9: the changes of a result are non-empty exactly when the call was a
\* dry run that found the memory value or the persisted value to differ
\* from the desired one, or an apply whose Persister reported Updated; they
\* are empty for an unknown name and when the Persister failed.
C9_ChangesIff ==
    (call.active /\ exc = "") =>
        LET discrepancy ==
                /\ call.name \in KnownNames
                /\ ~(/\ MemoryValueCorrect(live[call.name], call.value)
                      /\ ConfigValueCorrect(files[CallPath], call.name, call.value))
        IN  /\ ret.changes # {} <=>
                  \/ call.test /\ discrepancy
                  \/ ~call.test /\ call.token = UpdatedToken
            /\ call.name \notin KnownNames => ret.changes = {}
            /\ call.raised => ret.changes = {}

C9_Witness ==
    /\ CallKnown /\ call.test /\ exc = ""
    /\ call.exit = "return@103" /\ ret.changes # {}

\* C10: the test-mode comparison sees only the sequence of whitespace-
\* separated tokens: writing the current, the persisted or the desired value
\* with its blanks doubled, or between two blanks, changes neither memOK nor
\* fileOK nor the result; and the tokens are compared as text, so memOK
\* (fileOK) holds exactly when the two token sequences are the same text.
C10_WhitespaceInsensitive ==
    (CallKnown /\ call.test /\ exc = "") =>
        \A n \in {call.name}, val \in {call.value}, cfg \in {files[CallPath]} :
        \A cur \in {live[n]}, per \in {cfg[n]} :
        \A sameMem \in {Canon(cur) = Canon(Str(val))},
           sameFile \in {Canon(per) = Canon(Str(val))} :
            /\ {MemoryValueCorrect(c, val) : c \in Same(cur)} = {sameMem}
            /\ {MemoryValueCorrect(cur, PyStr(v)) : v \in Same(Str(val))} = {sameMem}
            /\ {ConfigValueCorrect(Put(cfg, n, f), n, val) : f \in Same(per)}
                  = {sameFile}
            /\ {ConfigValueCorrect(cfg, n, PyStr(v)) : v \in Same(Str(val))}
                  = {sameFile}
            /\ ret.result = "True" <=> sameMem /\ sameFile
            /\ DryRun(n, PyStr(Doubled(Str(val))), Padded(cur),
                      Put(cfg, n, Doubled(per))).ret.result = ret.result
            /\ DryRun(n, PyStr(Padded(Str(val))), Doubled(cur),
                      Put(cfg, n, Padded(per))).ret.result = ret.result

C10_Witness ==
    /\ CallKnown /\ call.test /\ call.exit = "return@88"
    /\ live[call.name] = <<"0", " ", " ", "0">>
    /\ call.value = PyStr(<<"0", " ", "0">>)
    /\ files[CallPath][call.name] = <<"0", "0">>

====
